---- MODULE Spec2Model ----
(***************************************************************************)
(* A model of the two notebooks of dlaudio.                                *)
(*                                                                         *)
(*  - audio_graph.ipynb: KNN graph construction, symmetric weight matrix,  *)
(*    normalized graph Laplacian, HDF5 output.  Every code cell is one     *)
(*    action; pc names the next cell to run and err the exception that     *)
(*    stopped the notebook ("" while it runs).                             *)
(*  - the dictionary-learning notebook: the alternating outer loop with    *)
(*    its two convex sub-problems.                                         *)
(*                                                                         *)
(* Numbers.  Samples are integer vectors; a coordinate c stands for the    *)
(* real c / 5, so that the squared norm UnitSq stands for 1.  FLANN's      *)
(* squared Euclidean distances are then exact integers (in units of        *)
(* 1 / UnitSq).  Vertices, rows and columns are numbered from 0 as in the  *)
(* Python code.  The float NaN is the value NaN below.                     *)
(***************************************************************************)
EXTENDS Integers, Sequences, FiniteSets, TLC

\* ------------------------------------------------------------------------
\* Bounds of the model
\* ------------------------------------------------------------------------

\* Number of samples X.shape[0] of the graph notebook's dataset.
NumSamples == 4

\* Largest number of neighbours K tried (K ranges over 1..MaxK, K+1 <= N).
MaxK == 2

\* ------------------------------------------------------------------------
\* Hyper-parameters and hard-coded positions of audio_graph.ipynb
\* ------------------------------------------------------------------------

Csigma == 1

\* The distance cell verifies the pair i, k = 14, 3 and the output cell prints
\* entry [0, 4]; both lie inside the notebook's dataset (N in the hundreds of
\* thousands, K = 10).  The model's datasets are smaller, so the checked pair
\* and the printed entry are placed inside them.
VerifyI == 2
VerifyK == 0
PrintCol == 1

Metrics == {"euclidean", "cosine", "manhattan"}

\* ------------------------------------------------------------------------
\* Floating point values: naturals and NaN
\* ------------------------------------------------------------------------

NaN == 0 - 1

IsNaN(a) == a = NaN

FAdd(a, b) == IF IsNaN(a) \/ IsNaN(b) THEN NaN ELSE a + b

FSub(a, b) == IF IsNaN(a) \/ IsNaN(b) THEN NaN ELSE a - b

\* a > b on floats: every comparison with NaN is False.
FGt(a, b) == ~IsNaN(a) /\ ~IsNaN(b) /\ a > b

RECURSIVE Pow2(_)
Pow2(e) == IF e <= 0 THEN 1 ELSE 2 * Pow2(e - 1)

\* Floor of the square root (np.sqrt at the model's resolution).
ISqrt(n) == CHOOSE r \in 0..n : r * r <= n /\ (r + 1) * (r + 1) > n

Range(f) == {f[x] : x \in DOMAIN f}

MaxOf(S) == CHOOSE m \in S : \A s \in S : s <= m

\* Sum of f[x] for x in S, with float addition.
RECURSIVE FSum(_, _)
FSum(f, S) ==
    IF S = {} THEN 0
    ELSE LET x == CHOOSE y \in S : TRUE
         IN  FAdd(f[x], FSum(f, S \ {x}))

\* ------------------------------------------------------------------------
\* Samples
\* ------------------------------------------------------------------------

\* Samples of the positive quadrant on the unit sphere (norm 5 = 1.0).
Samples == {<<5, 0>>, <<4, 3>>, <<3, 4>>, <<0, 5>>}

Dot(p, q) == p[1] * q[1] + p[2] * q[2]

UnitSq == Dot(<<5, 0>>, <<5, 0>>)

\* Squared Euclidean distance, the distance FLANN returns.
SqDist(p, q) == Dot(<<p[1] - q[1], p[2] - q[2]>>, <<p[1] - q[1], p[2] - q[2]>>)

Vertices == 0..(NumSamples - 1)

\* ------------------------------------------------------------------------
\* State
\* ------------------------------------------------------------------------

VARIABLES
    pc,         \* graph notebook: the next code cell to run
    err,        \* graph notebook: the exception that stopped it, "" if none
    K,          \* hyper-parameter: number of nearest neighbours
    dm,         \* hyper-parameter: distance metric
    X,          \* the samples, one per vertex
    knnidx,     \* KNN result: indices, N x (K+1)
    knndist,    \* KNN result: squared Euclidean distances, N x (K+1)
    idx,        \* retained neighbours, N x K
    dist,       \* retained distances, N x K
    w,          \* edge weights, N x K
    W,          \* the weight matrix
    Wdirected,  \* history: the weight matrix as built, before it is made symmetric
    Nvertices,  \* X.shape[0], set by the construction cell
    D,          \* D[i] = s stands for the diagonal entry 1 / sqrt(s) of D^{-1/2}
    L,          \* the Laplacian
    file,       \* data/graph.hdf5: Missing, or its attributes and datasets
    file_before,\* history: data/graph.hdf5 as it was when the notebook started
    dl_pc,      \* dictionary learning: "z" / "d" = the sub-problem to solve next
    dl_k,       \* dictionary learning: k, the outer iteration
    Zinit,      \* initial sparse codes (m x N)
    Dinit,      \* initial dictionary (n x m)
    Z,          \* sparse codes
    Dict,       \* the dictionary, D in the notebook (n x m, one atom per column)
    f_z,        \* data term of the Z sub-problem: its operator A
    f_d,        \* data term of the D sub-problem: its operator A
    solves      \* history: the sub-problems solved so far, in order

gvars == <<pc, err, K, dm, X, knnidx, knndist, idx, dist, w, W, Wdirected,
           Nvertices, D, L, file, file_before>>

dvars == <<dl_pc, dl_k, Zinit, Dinit, Z, Dict, f_z, f_d, solves>>

vars == <<gvars, dvars>>

\* A name that is not bound / a file that does not exist.
Unset == <<>>

Missing == [exists |-> FALSE]

\* A data/graph.hdf5 left by an earlier run with other hyper-parameters.
OldFile ==
    [exists |-> TRUE,
     attrs |-> [K |-> 0, dm |-> "old", sigma |-> 0],
     datasets |-> [W_data |-> <<0>>, A_data |-> <<0>>]]

EmptyMatrix == [shape |-> <<0, 0>>, at |-> <<>>]

\* ------------------------------------------------------------------------
\* Dense view of the sparse matrices
\* ------------------------------------------------------------------------

Rows(M) == 0..(M.shape[1] - 1)

Cols(M) == 0..(M.shape[2] - 1)

\* M.T
Transpose(M) ==
    [shape |-> <<M.shape[2], M.shape[1]>>,
     at |-> [i \in Cols(M) |-> [j \in Rows(M) |-> M.at[j][i]]]]

\* A > B, a boolean matrix
Greater(A, B) ==
    [shape |-> A.shape,
     at |-> [i \in Rows(A) |-> [j \in Cols(A) |-> FGt(A.at[i][j], B.at[i][j])]]]

\* A.multiply(B) for a boolean sparse B: an entry B does not store is 0.
Multiply(A, B) ==
    [shape |-> A.shape,
     at |-> [i \in Rows(A) |-> [j \in Cols(A) |->
                IF B.at[i][j] THEN A.at[i][j] ELSE 0]]]

\* A - B
Minus(A, B) ==
    [shape |-> A.shape,
     at |-> [i \in Rows(A) |-> [j \in Cols(A) |-> FSub(A.at[i][j], B.at[i][j])]]]

\* A + B
Plus(A, B) ==
    [shape |-> A.shape,
     at |-> [i \in Rows(A) |-> [j \in Cols(A) |-> FAdd(A.at[i][j], B.at[i][j])]]]

\* np.all(M.diagonal() == 0)
DiagonalIsZero(M) ==
    \A i \in Rows(M) \cap Cols(M) : M.at[i][i] = 0

\* ------------------------------------------------------------------------
\* Nearest neighbours (pyflann.FLANN().nn(X, X, K+1, ...))
\* ------------------------------------------------------------------------

\* The library returns the neighbours of a sample by increasing distance.
\* How it orders neighbours at equal distance (the sample itself and its
\* exact duplicates are all at distance 0) is not specified: the search may
\* meet the query point first ("self"), or scan in index order either way.
TieBreaks == {"self", "asc", "desc"}

TieBefore(i, a, b, tie) ==
    CASE tie = "asc"  -> a < b
      [] tie = "desc" -> a > b
      [] OTHER        -> IF a = i THEN b # i ELSE b # i /\ a < b

\* a is listed before b among the neighbours of i.
Before(Xs, i, a, b, tie) ==
    LET da == SqDist(Xs[i], Xs[a])
        db == SqDist(Xs[i], Xs[b])
    IN  da < db \/ (da = db /\ a # b /\ TieBefore(i, a, b, tie))

nn_index(Xs, n, tie) ==
    [i \in DOMAIN Xs |->
        [k \in 0..(n - 1) |->
            CHOOSE a \in DOMAIN Xs :
                Cardinality({b \in DOMAIN Xs : Before(Xs, i, b, a, tie)}) = k]]

nn_dist(Xs, nidx) ==
    [i \in DOMAIN nidx |->
        [k \in DOMAIN nidx[i] |-> SqDist(Xs[i], Xs[nidx[i][k]])]]

\* A[:, 1:]
DropFirstColumn(A) ==
    [i \in DOMAIN A |->
        [k \in 0..(Cardinality(DOMAIN A[i]) - 2) |-> A[i][k + 1]]]

\* ------------------------------------------------------------------------
\* Distances and weights
\* ------------------------------------------------------------------------

\* dm is 'euclidean': dist = np.sqrt(dist), in units of 1/5
DistEuclidean(dsq) == [i \in DOMAIN dsq |-> [k \in DOMAIN dsq[i] |-> ISqrt(dsq[i][k])]]

\* Variant: the division by two left out.
DistCosineUndivided(dsq) == dsq

\* dm is 'cosine': dist = dist / 2, in units of 1/UnitSq
DistCosine(dsq) == [i \in DOMAIN dsq |-> [k \in DOMAIN dsq[i] |-> dsq[i][k] \div 2]]

\* d of the verification: the distance of samples p and q computed from X.
VerifyDistance(metric, p, q) ==
    IF metric = "euclidean" THEN ISqrt(SqDist(p, q)) ELSE UnitSq - Dot(p, q)

\* np.linalg.norm(p) - 1 < tol
NormAtMostOne(p) == Dot(p, p) <= UnitSq

FlatPositions(A) == {<<i, k>> : i \in DOMAIN A, k \in 0..(Cardinality(DOMAIN A[0]) - 1)}

\* Sum and number of the entries of a 2-D array.
ArraySum(A) ==
    LET f == [p \in FlatPositions(A) |-> A[p[1]][p[2]]]
    IN  FSum(f, FlatPositions(A))

ArraySize(A) == Cardinality(FlatPositions(A))

\* w = np.exp(-dist / sigma) with sigma = Csigma * np.mean(dist), in fixed
\* point: with x = dist / sigma = dist * size / (Csigma * sum), the weight is
\* 2^(size - floor(x)), i.e. the kernel in base 2, scaled by 2^size so that
\* every weight is a positive integer (x <= size as dist <= sum).  When
\* every distance is 0, sigma is 0 and -dist / sigma is 0 / 0: every weight
\* is NaN (numpy warns and goes on).
GaussianKernel(ds) ==
    LET total == ArraySum(ds)
        size  == ArraySize(ds)
        x(a)  == (a * size) \div (Csigma * total)
    IN  [i \in DOMAIN ds |->
            [k \in DOMAIN ds[i] |->
                IF Csigma * total = 0 THEN NaN
                ELSE Pow2(size - x(ds[i][k]))]]

\* ------------------------------------------------------------------------
\* The weight matrix
\* ------------------------------------------------------------------------

\* list(indices(N, K)): the iterator's next() from state (n, k), collected
\* until it raises StopIteration.
RECURSIVE indices_list(_, _, _, _, _)
indices_list(N, Kn, n, k, out) ==
    LET k1 == k + 1
    IN  IF k1 > Kn
        THEN IF n + 1 >= N
             THEN out
             ELSE indices_list(N, Kn, n + 1, 1, Append(out, n + 1))
        ELSE indices_list(N, Kn, n, k1, Append(out, n))

\* A.flat: the entries of a 2-D array in row-major order.
Flat(A) ==
    LET cols == Cardinality(DOMAIN A[0])
    IN  [p \in 1..(Cardinality(DOMAIN A) * cols) |->
            A[(p - 1) \div cols][(p - 1) % cols]]

\* scipy.sparse.coo_matrix((v, (i, j))).tocsr(): no shape is given, so the
\* shape is (max(i) + 1, max(j) + 1); entries at the same position add up.
coo_matrix(v, i, j) ==
    [shape |-> <<MaxOf(Range(i)) + 1, MaxOf(Range(j)) + 1>>,
     at |-> [r \in 0..MaxOf(Range(i)) |-> [c \in 0..MaxOf(Range(j)) |->
                FSum(v, {p \in DOMAIN v : i[p] = r /\ j[p] = c})]]]

\* Variant: the comparison turned around (bigger = W.T < W), which keeps the
\* smaller of the two weights.
SymmetrizeSmaller(M) ==
    LET bigger == Greater(M, Transpose(M))
    IN  Plus(Minus(M, Multiply(M, bigger)), Multiply(Transpose(M), bigger))

\* Variant: the cell's first, commented-out line, W = W/2 + W.T/2.
SymmetrizeAverage(M) ==
    [shape |-> M.shape,
     at |-> [i \in Rows(M) |-> [j \in Cols(M) |-> (M.at[i][j] + M.at[j][i]) \div 2]]]

\* bigger = W.T > W;  W - W.multiply(bigger) + W.T.multiply(bigger)
Symmetrize(M) ==
    LET bigger == Greater(Transpose(M), M)
    IN  Plus(Minus(M, Multiply(M, bigger)), Multiply(Transpose(M), bigger))

\* W.sum(axis=0): the sum of every column
ColumnSums(M) ==
    [j \in Cols(M) |->
        LET col == [i \in Rows(M) |-> M.at[i][j]]
        IN  FSum(col, Rows(M))]

\* L = I - D * W * D with D = diag(1 / sqrt(s)): entry (i, j) is
\* one - num / sqrt(di * dj); an entry W does not store stays out of the
\* product (num = 0).
Laplacian(M, Dg) ==
    [shape |-> M.shape,
     at |-> [i \in Rows(M) |-> [j \in Cols(M) |->
                [one |-> IF i = j THEN 1 ELSE 0,
                 num |-> M.at[i][j], di |-> Dg[i], dj |-> Dg[j]]]]]

\* ------------------------------------------------------------------------
\* The HDF5 file
\* ------------------------------------------------------------------------

\* The arrays of a CSR matrix: the stored entries are the non-zero ones,
\* row by row.
StoredPositions(M, nonzero) ==
    LET cols == M.shape[2]
        all  == [p \in 1..(M.shape[1] * cols) |-> <<(p - 1) \div cols, (p - 1) % cols>>]
        keep(pos) == pos \in nonzero
    IN  SelectSeq(all, keep)

\* getattr(m, par), with nonzero the positions of the non-zero entries of m
csr_attribute(M, nonzero, par) ==
    LET stored == StoredPositions(M, nonzero)
    IN  CASE par = "data" ->
               [p \in DOMAIN stored |-> M.at[stored[p][1]][stored[p][2]]]
          [] par = "indices" ->
               [p \in DOMAIN stored |-> stored[p][2]]
          [] par = "indptr" ->
               [r \in 1..(M.shape[1] + 1) |->
                   Cardinality({p \in DOMAIN stored : stored[p][1] < r - 1})]
          [] OTHER -> M.shape

NonZeroWeights(M) == {<<i, j>> \in Rows(M) \X Cols(M) : M.at[i][j] # 0}

NonZeroLaplacian(M) ==
    {<<i, j>> \in Rows(M) \X Cols(M) : M.at[i][j].one # 0 \/ M.at[i][j].num # 0}

\* try: os.remove(filename) / except OSError: pass
os_remove(f) == Missing

\* h5py.File(filename, 'w'): create the file, truncate it if it exists
h5py_create(f) == [exists |-> TRUE, attrs |-> <<>>, datasets |-> <<>>]

set_attr(f, name, value) == [f EXCEPT !.attrs = (name :> value) @@ @]

create_dataset(f, name, arr) == [f EXCEPT !.datasets = (name :> arr) @@ @]

\* for par in ('data', 'indices', 'indptr', 'shape'): create_dataset(mat_par)
RECURSIVE save_matrix(_, _, _, _, _)
save_matrix(f, mat, M, nonzero, pars) ==
    IF pars = <<>> THEN f
    ELSE save_matrix(
             create_dataset(f, mat \o "_" \o Head(pars),
                            csr_attribute(M, nonzero, Head(pars))),
             mat, M, nonzero, Tail(pars))

\* Variant: the shape is not saved.
MatrixParametersWithoutShape == <<"data", "indices", "indptr">>

MatrixParameters == <<"data", "indices", "indptr", "shape">>

\* ------------------------------------------------------------------------
\* audio_graph.ipynb, cell by cell
\* ------------------------------------------------------------------------

Running(cell) == pc = cell /\ err = ""

\* After a cell: go on to the next one, or stop on the exception it raised.
Continue(exception, next) ==
    /\ err' = exception
    /\ pc' = IF exception = "" THEN next ELSE pc

\* The other notebook is not running.
NotLearning ==
    /\ dl_pc = "off" /\ dl_k = 0
    /\ Zinit = Unset /\ Dinit = Unset /\ Z = Unset /\ Dict = Unset
    /\ f_z = Unset /\ f_d = Unset /\ solves = Unset

\* The state after the hyper-parameter, setup and input cells: the samples
\* are loaded (and lie on the unit sphere), nothing else is computed yet.
Init ==
    /\ pc = "knn"
    /\ err = ""
    /\ K \in {n \in 1..MaxK : n + 1 <= NumSamples}
    /\ dm \in Metrics
    /\ X \in [Vertices -> Samples]
    /\ knnidx = Unset /\ knndist = Unset
    /\ idx = Unset /\ dist = Unset /\ w = Unset
    /\ W = EmptyMatrix /\ Wdirected = EmptyMatrix
    /\ Nvertices = 0
    /\ D = Unset
    /\ L = EmptyMatrix
    /\ file \in {Missing, OldFile}
    /\ file_before = file
    /\ NotLearning

\* knnidx, knndist = pyflann.FLANN().nn(X, X, K+1, ...); asserts()
NearestNeighbors ==
    /\ Running("knn")
    /\ \E tie \in TieBreaks :
          /\ knnidx' = nn_index(X, K + 1, tie)
          /\ knndist' = nn_dist(X, knnidx')
    /\ Continue("", "exclude")
    /\ UNCHANGED <<K, dm, X, idx, dist, w, W, Wdirected, Nvertices, D, L, file, file_before, dvars>>

\* idx, dist = knnidx[:,1:], knndist[:,1:]
ExcludeSelf ==
    /\ Running("exclude")
    /\ idx' = DropFirstColumn(knnidx)
    /\ dist' = DropFirstColumn(knndist)
    /\ Continue("", "distance")
    /\ UNCHANGED <<K, dm, X, knnidx, knndist, w, W, Wdirected, Nvertices, D, L, file, file_before, dvars>>

\* The verification at the end of the distance cell, on the converted
\* distances: "" or the exception it raises.
Verification(converted) ==
    IF VerifyI \notin DOMAIN idx \/ VerifyK \notin DOMAIN idx[VerifyI]
    THEN "IndexError"
    ELSE LET j == idx[VerifyI][VerifyK]
         IN  IF dm = "cosine" /\ ~(NormAtMostOne(X[VerifyI]) /\ NormAtMostOne(X[j]))
             THEN "AssertionError"
             ELSE IF converted[VerifyI][VerifyK] = VerifyDistance(dm, X[VerifyI], X[j])
                  THEN ""
                  ELSE "AssertionError"

\* Variant: a final else instead of elif dm is 'cosine', no ValueError.
MetricAny(metric) == TRUE

\* The metrics the distance cell converts; any other takes its else branch.
MetricKnown(metric) == metric = "euclidean" \/ metric = "cosine"

\* if dm is 'euclidean': ... elif dm is 'cosine': ... else: raise ValueError
DistanceMetric ==
    /\ Running("distance")
    /\ IF MetricKnown(dm)
       THEN /\ dist' = IF dm = "euclidean" THEN DistEuclidean(dist) ELSE DistCosine(dist)
            /\ Continue(Verification(dist'), "weights")
       ELSE /\ dist' = dist
            /\ Continue("ValueError", "weights")
    /\ UNCHANGED <<K, dm, X, knnidx, knndist, idx, w, W, Wdirected, Nvertices, D, L, file, file_before, dvars>>

\* sigma = Csigma * np.mean(dist); w = np.exp(-dist / sigma)
Weights ==
    /\ Running("weights")
    /\ w' = GaussianKernel(dist)
    /\ Continue("", "construct")
    /\ UNCHANGED <<K, dm, X, knnidx, knndist, idx, dist, W, Wdirected, Nvertices, D, L, file, file_before, dvars>>

\* W = coo_matrix((v, (i,j))).tocsr() and its two assertions
Construct ==
    /\ Running("construct")
    /\ Nvertices' = Cardinality(DOMAIN X)
    /\ W' = coo_matrix(Flat(w), indices_list(Cardinality(DOMAIN X), K, 0, 0, <<>>), Flat(idx))
    /\ Wdirected' = W'
    /\ Continue(IF W'.shape = <<Nvertices', Nvertices'>> /\ DiagonalIsZero(W')
                THEN "" ELSE "AssertionError",
                "symmetrize")
    /\ UNCHANGED <<K, dm, X, knnidx, knndist, idx, dist, w, D, L, file, file_before, dvars>>

\* bigger = W.T > W; W = W - W.multiply(bigger) + W.T.multiply(bigger)
Symmetrization ==
    /\ Running("symmetrize")
    /\ W' = Symmetrize(W)
    /\ Continue(IF DiagonalIsZero(W') THEN "" ELSE "AssertionError", "degree")
    /\ UNCHANGED <<K, dm, X, knnidx, knndist, idx, dist, w, Wdirected, Nvertices, D, L, file, file_before, dvars>>

\* d = 1 / np.sqrt(W.sum(axis=0)); D = scipy.sparse.diags(d.A.squeeze(), 0)
Degree ==
    /\ Running("degree")
    /\ D' = ColumnSums(W)
    /\ Continue("", "laplacian")
    /\ UNCHANGED <<K, dm, X, knnidx, knndist, idx, dist, w, W, Wdirected, Nvertices, L, file, file_before, dvars>>

\* I = scipy.sparse.identity(Nvertices); L = I - D * W * D
NormalizedLaplacian ==
    /\ Running("laplacian")
    /\ L' = Laplacian(W, D)
    /\ Continue("", "output")
    /\ UNCHANGED <<K, dm, X, knnidx, knndist, idx, dist, w, W, Wdirected, Nvertices, D, file, file_before, dvars>>

\* The output cell: remove the file, create it, write the attributes, then
\* for W and L print m[0, PrintCol] and write the four arrays.
Output ==
    /\ Running("output")
    /\ LET opened == set_attr(set_attr(set_attr(h5py_create(os_remove(file)),
                                                "K", K), "dm", dm), "Csigma", Csigma)
           withW  == save_matrix(opened, "W", W, NonZeroWeights(W), MatrixParameters)
           withL  == save_matrix(withW, "L", L, NonZeroLaplacian(L), MatrixParameters)
       IN  IF PrintCol \notin Cols(W)
           THEN file' = opened /\ Continue("IndexError", "done")
           ELSE IF PrintCol \notin Cols(L)
                THEN file' = withW /\ Continue("IndexError", "done")
                ELSE file' = withL /\ Continue("", "done")
    /\ UNCHANGED <<K, dm, X, knnidx, knndist, idx, dist, w, W, Wdirected, Nvertices, D, L, file_before, dvars>>

Next ==
    \/ NearestNeighbors
    \/ ExcludeSelf
    \/ DistanceMetric
    \/ Weights
    \/ Construct
    \/ Symmetrization
    \/ Degree
    \/ NormalizedLaplacian
    \/ Output

Spec == Init /\ [][Next]_vars

\* ------------------------------------------------------------------------
\* The dictionary-learning notebook
\* ------------------------------------------------------------------------
\* Matrices are tuples of rows.  The dictionary is n x m with n = m = 2 and
\* the codes are m x N with N = 1; entries are in the fixed point of the
\* samples (5 = 1.0).  The solvers are pyunlocbox's: a solve runs
\* forward-backward iterations x <- prox(y - step * grad(y)) and returns
\* the last x.  The model takes the result of the gradient step to be any
\* matrix of a finite candidate set and applies the notebook's prox to it.

N_outer == 15

\* M.T
T(M) == [j \in 1..Len(M[1]) |-> [i \in 1..Len(M) |-> M[i][j]]]

ColumnNormSq(M, j) == FSum([i \in 1..Len(M) |-> M[i][j] * M[i][j]], 1..Len(M))

\* g_d1._prox(M, 0) with g_d1 = functions.proj_b2(epsilon=1): every column
\* of M is projected onto the unit L2 ball (scaled by min(1, 1 / norm)).
proj_b2(M) ==
    [i \in 1..Len(M) |->
        [j \in 1..Len(M[1]) |->
            IF ColumnNormSq(M, j) <= UnitSq THEN M[i][j]
            ELSE (M[i][j] * ISqrt(UnitSq)) \div ISqrt(ColumnNormSq(M, j))]]

\* Variant: the projection applied to D.T itself, without the transposes.
g_d_prox_untransposed(Dt) == proj_b2(Dt)

\* g_d._prox = lambda Dt,_: g_d1._prox(Dt.T, 0).T
g_d_prox(Dt) == T(proj_b2(T(Dt)))

\* np.alltrue(d <= 1+1e-15) with d the norms of the columns of M
ConstraintsOnD(M) == \A j \in 1..Len(M[1]) : ColumnNormSq(M, j) <= UnitSq

\* What a gradient step may leave in an atom (a row of D.T): inside the
\* ball, on it, and outside it.
AtomSteps == {<<0, 3>>, <<3, 4>>, <<6, 8>>, <<10, 0>>}

ForwardD == {<<a, b>> : a \in AtomSteps, b \in AtomSteps}

\* The sparse codes a Z solve may return (m x 1, not all zero).
ZValues == {<<<<1>>, <<0>>>>, <<<<0>>, <<2>>>>, <<<<1>>, <<1>>>>}

\* Initial dictionaries: the columns are normalized to unit L2 norm.
DValues == {T(<<<<4, 3>>, <<0, 5>>>>), T(<<<<0, 5>>, <<4, 3>>>>)}

\* functions.norm_l2(lambda_=l_d/2., A=A, y=y, tight=False): the operator
\* it holds.
norm_l2(A) == [A |-> A]

\* solvers.solve([f_z, g_z], Z, solver, ...)['sol']
SolveZ(f, x0) == ZValues

\* solvers.solve([f_d, g_d], D.T, solver, ...)['sol']
SolveD(f, x0) == {g_d_prox(x) : x \in ForwardD}

NotGraph ==
    /\ pc = "off" /\ err = "" /\ K = 0 /\ dm = "" /\ X = Unset
    /\ knnidx = Unset /\ knndist = Unset
    /\ idx = Unset /\ dist = Unset /\ w = Unset
    /\ W = EmptyMatrix /\ Wdirected = EmptyMatrix
    /\ Nvertices = 0 /\ D = Unset /\ L = EmptyMatrix
    /\ file = Missing /\ file_before = Missing

\* Z = Zinit; D = Dinit, before the outer loop
InitDL ==
    /\ NotGraph
    /\ dl_pc = "z"
    /\ dl_k = 0
    /\ Zinit \in ZValues
    /\ Dinit \in DValues
    /\ Z = Zinit
    /\ Dict = Dinit
    /\ f_z = Unset
    /\ f_d = Unset
    /\ solves = <<>>

\* Variant: the Z sub-problem always built on the initial dictionary.
new_f_z_initial == norm_l2(Dinit)

\* f_z = functions.norm_l2(lambda_=l_d/2., A=D, y=X, tight=False)
new_f_z == norm_l2(Dict)

\* f_d = functions.norm_l2(lambda_=l_d/2., A=Z.T, y=X.T, tight=False)
new_f_d == norm_l2(T(Z))

\* Convex minimization for Z.
MinimizeZ ==
    /\ dl_pc = "z"
    /\ dl_k < N_outer
    /\ f_z' = new_f_z
    /\ Z' \in SolveZ(f_z', Z)
    /\ solves' = Append(solves, "Z")
    /\ dl_pc' = "d"
    /\ UNCHANGED <<gvars, dl_k, Zinit, Dinit, Dict, f_d>>

\* Convex minimization for D, and the end of the loop body.
MinimizeD ==
    /\ dl_pc = "d"
    /\ f_d' = new_f_d
    /\ \E sol \in SolveD(f_d', T(Dict)) : Dict' = T(sol)
    /\ solves' = Append(solves, "D")
    /\ dl_k' = dl_k + 1
    /\ dl_pc' = "z"
    /\ UNCHANGED <<gvars, Zinit, Dinit, Z, f_z>>

NextDL == MinimizeZ \/ MinimizeD

SpecDL == InitDL /\ [][NextDL]_vars

\* ------------------------------------------------------------------------
\* The symmetrization cell on its own, on any small square matrix of
\* non-negative weights
\* ------------------------------------------------------------------------

SymSize == 2

SymMaxWeight == 2

InitSym ==
    /\ pc = "symmetrize"
    /\ err = ""
    /\ \E M \in [0..(SymSize - 1) -> [0..(SymSize - 1) -> 0..SymMaxWeight]] :
          W = [shape |-> <<SymSize, SymSize>>, at |-> M]
    /\ Wdirected = W
    /\ Nvertices = SymSize
    /\ K = 0 /\ dm = "" /\ X = Unset
    /\ knnidx = Unset /\ knndist = Unset
    /\ idx = Unset /\ dist = Unset /\ w = Unset
    /\ D = Unset /\ L = EmptyMatrix
    /\ file = Missing /\ file_before = Missing
    /\ NotLearning

NextSym == Symmetrization

SpecSym == InitSym /\ [][NextSym]_vars

\* ------------------------------------------------------------------------
\* Properties
\* ------------------------------------------------------------------------

\* The cells that have run (a cell that raised has run up to the raise).
Excluded == pc \notin {"off", "knn", "exclude"}

DistancesConverted ==
    \/ pc \in {"weights", "construct", "symmetrize", "degree", "laplacian", "output", "done"}
    \/ pc = "distance" /\ err \in {"AssertionError", "IndexError"}

Constructed == Nvertices # 0

Symmetrized ==
    \/ pc \in {"degree", "laplacian", "output", "done"}
    \/ pc = "symmetrize" /\ err # ""

LaplacianComputed == pc \in {"output", "done"}

MaxInt(a, b) == IF a >= b THEN a ELSE b

\* Number of non-zero entries of row i.
RowDegree(M, i) == Cardinality({j \in Cols(M) : M.at[i][j] # 0})

\* The K retained neighbours of every vertex are distinct and none is the
\* vertex itself.
RetainedNeighboursProper ==
    \A i \in DOMAIN idx :
        /\ \A a, b \in DOMAIN idx[i] : a # b => idx[i][a] # idx[i][b]
        /\ \A a \in DOMAIN idx[i] : idx[i][a] # i

\* C1: once the weight matrix has been made symmetric, and the retained
\* neighbours of every vertex are distinct and other than the vertex, every
\* row of W has at least K non-zero entries.
C1_MinimumDegree ==
    (Symmetrized /\ RetainedNeighboursProper) =>
        \A i \in Rows(W) : RowDegree(W, i) >= K

\* C1 witness: a symmetric W in which one vertex has exactly K edges and
\* another one got more than K through the symmetrization.
C1_Witness ==
    /\ Symmetrized /\ RetainedNeighboursProper
    /\ \E i \in Rows(W) : RowDegree(W, i) = K /\ RowDegree(Wdirected, i) = K
    /\ \E i \in Rows(W) : RowDegree(W, i) > K /\ RowDegree(Wdirected, i) = K

\* C2: the symmetrization turns a square matrix of non-negative weights
\* into the elementwise maximum of the matrix and its transpose, which is
\* symmetric.
C2_SymmetrizeIsMax ==
    Symmetrized =>
        \A i \in Rows(W), j \in Cols(W) :
            /\ W.at[i][j] = MaxInt(Wdirected.at[i][j], Wdirected.at[j][i])
            /\ W.at[i][j] = W.at[j][i]

\* C2 witness: a symmetrized matrix whose input had two different non-zero
\* weights on the two directions of an edge.
C2_Witness ==
    /\ Symmetrized
    /\ \E i \in Rows(W), j \in Cols(W) :
          /\ Wdirected.at[i][j] > Wdirected.at[j][i]
          /\ Wdirected.at[j][i] > 0
          /\ W.at[j][i] = Wdirected.at[i][j]

\* C3 (as claimed): whatever the KNN result, the weight matrix the
\* construction cell builds has shape (Nvertices, Nvertices).
C3_ShapeAssertion ==
    Constructed => W.shape = <<Cardinality(DOMAIN X), Cardinality(DOMAIN X)>>

\* C4 (as claimed): after the first column of the KNN result is dropped no
\* vertex is among its own retained neighbours, and the diagonal of W is zero
\* after the construction and after the symmetrization.
C4_NoSelfReference ==
    /\ Excluded => \A i \in DOMAIN idx : i \notin Range(idx[i])
    /\ Constructed => DiagonalIsZero(W)

\* C5 (as claimed): the Laplacian is I - D^{-1/2} W D^{-1/2} with D[i,i] the
\* sum of column i of W; every degree is strictly positive, L is symmetric
\* and its diagonal is 1.
C5_NormalizedLaplacian ==
    LaplacianComputed =>
        /\ \A i \in Rows(W) :
              /\ ~IsNaN(D[i])
              /\ D[i] > 0
              /\ \A j \in Cols(W) : ~IsNaN(W.at[j][i])
              /\ D[i] = FSum([j \in Rows(W) |-> W.at[j][i]], Rows(W))
        /\ \A i \in Rows(L), j \in Cols(L) :
              /\ L.at[i][j] = [one |-> IF i = j THEN 1 ELSE 0,
                               num |-> W.at[i][j], di |-> D[i], dj |-> D[j]]
              /\ L.at[i][j].one = L.at[j][i].one
              /\ L.at[i][j].num = L.at[j][i].num
              /\ L.at[i][j].di = L.at[j][i].dj
        /\ \A i \in Rows(L) : L.at[i][i].one = 1 /\ L.at[i][i].num = 0

\* C6: the outer loop alternates the two sub-problems, Z first: the Z solve
\* of an iteration holds the dictionary of the previous D solve (Dinit in
\* the first iteration), the D solve holds the codes the Z solve of the
\* same iteration returned, and iteration k has seen exactly k+1 / k solves
\* of each kind.
C6_AlternatingOrder ==
    /\ \A p \in DOMAIN solves : solves[p] = IF p % 2 = 1 THEN "Z" ELSE "D"
    /\ dl_pc = "d" =>
          /\ Len(solves) = 2 * dl_k + 1
          /\ f_z.A = Dict
          /\ dl_k = 0 => f_z.A = Dinit
    /\ dl_pc = "z" =>
          /\ Len(solves) = 2 * dl_k
          /\ dl_k > 0 => f_d.A = T(Z)

\* C6 witness: the top of the third iteration, with a dictionary and codes
\* that are no longer the initial ones.
C6_Witness ==
    /\ dl_pc = "z" /\ dl_k = 2
    /\ Dict # Dinit /\ Z # Zinit
    /\ f_z.A # Dict /\ f_z.A # Dinit

DatasetNames ==
    {"W_data", "W_indices", "W_indptr", "W_shape",
     "L_data", "L_indices", "L_indptr", "L_shape"}

\* C8: the output cell never fails, whether the file existed or not, and
\* leaves a file that holds exactly the attributes K, dm, Csigma of this run
\* and exactly the eight datasets of W and L.
C8_OutputFile ==
    /\ ~(pc = "output" /\ err # "")
    /\ pc = "done" =>
          /\ file.exists
          /\ DOMAIN file.attrs = {"K", "dm", "Csigma"}
          /\ file.attrs["K"] = K /\ file.attrs["dm"] = dm
          /\ file.attrs["Csigma"] = Csigma
          /\ DOMAIN file.datasets = DatasetNames
          /\ file.datasets["W_shape"] = W.shape
          /\ file.datasets["L_shape"] = L.shape
          /\ Len(file.datasets["W_indptr"]) = Nvertices + 1
          /\ Len(file.datasets["W_data"]) = Len(file.datasets["W_indices"])
          /\ Len(file.datasets["L_data"]) = Len(file.datasets["L_indices"])

\* C8 witness: the notebook has finished and has replaced a file that
\* existed before.
C8_Witness ==
    /\ pc = "done" /\ err = ""
    /\ file_before = OldFile
    /\ file # file_before
    /\ Len(file.datasets["W_data"]) >= Nvertices * K

\* C9: with a metric other than 'euclidean' and 'cosine' the notebook stops
\* in the distance cell on ValueError: no weight, no weight matrix and no
\* Laplacian is computed and the file is left as it was.
C9_UnknownMetricStops ==
    (pc # "off" /\ dm \notin {"euclidean", "cosine"}) =>
        /\ pc \in {"knn", "exclude", "distance"}
        /\ err # "" => pc = "distance" /\ err = "ValueError"
        /\ w = Unset /\ W = EmptyMatrix /\ L = EmptyMatrix /\ Nvertices = 0
        /\ file = file_before

\* C9 witness: stopped on ValueError with a file from an earlier run.
C9_Witness ==
    /\ dm = "manhattan"
    /\ pc = "distance" /\ err = "ValueError"
    /\ file_before = OldFile

\* C10: with the cosine metric and samples of unit norm, the distance of
\* every retained pair is 1 - <x_i, x_j>, and the verification does not
\* fail.
C10_CosineDistance ==
    /\ (dm = "cosine" /\ DistancesConverted /\ \A i \in DOMAIN X : Dot(X[i], X[i]) = UnitSq) =>
          \A i \in DOMAIN dist : \A n \in DOMAIN dist[i] :
              dist[i][n] = UnitSq - Dot(X[i], X[idx[i][n]])
    /\ dm = "cosine" => ~(pc = "distance" /\ err = "AssertionError")

\* C10 witness: converted cosine distances with a non-zero distance at a
\* pair other than the verified one.
C10_Witness ==
    /\ dm = "cosine" /\ pc = "weights"
    /\ \E i \in DOMAIN dist : \E n \in DOMAIN dist[i] :
          /\ <<i, n>> # <<VerifyI, VerifyK>>
          /\ dist[i][n] > 0
          /\ dist[i][n] < UnitSq

====
